---- MODULE Spec2Model ----
(***************************************************************************)
(* A model of src/api.ts, the data-access facade of the booking            *)
(* application.  Every exported operation is a sequence of requests to a   *)
(* remote table store; each request is one atomic step of the model and    *)
(* the operation's local code between two awaits belongs to the step of    *)
(* the request before it.  The store applies a request to the table the    *)
(* request names and to nothing else, and any request may fail (ok =       *)
(* FALSE): the response then carries an error and no data, and the table   *)
(* is left as it was.                                                      *)
(***************************************************************************)
EXTENDS Integers, Sequences, FiniteSets, TLC

\* ------------------------------------------------------------------ bounds
MaxCalls == 2           \* writing operations invoked in one behaviour of concurrent callers
MaxSeqCalls == 3        \* writing operations invoked in one behaviour of a single caller
MaxInitCredits == 2     \* the balance a profile starts with, when it is not 0

\* ------------------------------------------------------------- universes
Procs == {"c1", "c2"}           \* slots of operations in flight; callers are interchangeable
Users == {"u1", "u2"}           \* ids of the rows of profiles
SessionIds == {"s1", "s2"}
PackageIds == {"p1", "p2"}
PackageEdits ==                 \* what updatePackage may be given for a package
    {[name |-> "Starter", credits |-> 1, price |-> 12],
     [name |-> "Bundle", credits |-> 3, price |-> 10]}
ClassIds == {"k1", "k2"}
BlockoutIds == {"b1", "b2"}
Instructors == {"i1", "i2"}
MissingId == "zz"               \* an id no row of any table has
DayMax == 6                     \* days of the week are 0..6

VARIABLES
    profiles,       \* table profiles: user id -> package_credits
    class_types,    \* table class_types: set of rows [id]
    sessions,       \* table sessions: set of rows [id]
    enrollments,    \* table enrollments: <<session_id, user_id>> -> number of rows
    packages,       \* table packages: set of rows [id, name, credits, price]
    purchases,      \* table purchases: sequence of rows, in purchase_date order
    availability,   \* table availability: set of rows [id, instructor_id, day_of_week]
    availSeq,       \* the last id the store generated for an availability row
    blockouts,      \* table blockouts: set of rows [id, instructor_id]
    pc,             \* per slot: the request its operation issues next
    call,           \* per slot: the operation and its arguments
    pkg,            \* per slot: purchasePackage's local pkg (a set: {} is null)
    profile,        \* per slot: the local profile (a set: {} is null)
    ret,            \* per slot: how the operation ended
    failed,         \* per slot: some request of the operation met a remote failure
    calls,          \* writing operations invoked so far
    pre,            \* single caller only: the tables as the operation in flight found them
    prev            \* single caller only: the operation that returned last

tables == <<profiles, class_types, sessions, enrollments, packages, purchases,
            availability, availSeq, blockouts>>
history == <<pre, prev>>
vars == <<profiles, class_types, sessions, enrollments, packages, purchases,
          availability, availSeq, blockouts,
          pc, call, pkg, profile, ret, failed, calls, pre, prev>>

\* ------------------------------------------------------------- outcomes
NoCall == [op |-> "none"]
NoRet == [status |-> "none", error |-> "", value |-> {}]
Ok(v) == [status |-> "ok", error |-> "", value |-> v]
Throw(m) == [status |-> "error", error |-> m, value |-> {}]
RemoteError == "remote error"

\* .single(): the row when the request succeeded and matched exactly one row,
\* otherwise no data (null), here the empty set.
Single(rows, ok) == IF ok /\ Cardinality(rows) = 1 THEN rows ELSE {}

Pairs == SessionIds \X Users

\* A new operation takes the first idle slot.
FirstIdle(p) == pc[p] = "idle" /\ (p = "c1" \/ pc["c1"] # "idle")

\* an operation that writes is invoked
Invoke(p, c) ==
    /\ FirstIdle(p)
    /\ calls' = calls + 1
    /\ call' = [call EXCEPT ![p] = c]

\* an operation that writes nothing is invoked
InvokeRead(p, c) ==
    /\ FirstIdle(p)
    /\ call' = [call EXCEPT ![p] = c]
    /\ UNCHANGED calls

Finish(p, r) ==
    /\ pc' = [pc EXCEPT ![p] = "done"]
    /\ ret' = [ret EXCEPT ![p] = r]

Goto(p, label) ==
    /\ pc' = [pc EXCEPT ![p] = label]
    /\ UNCHANGED ret

\* a response's error is set
Fails(p, ok) == failed' = [failed EXCEPT ![p] = @ \/ ~ok]

\* ------------------------------------------------------------ bookSession
\* the pre-check without .eq('user_id', userId)
ExistingAnyUser(s, u, ok) ==
    ok /\ Cardinality({x \in Users : enrollments[<<s, x>>] > 0}) = 1
       /\ \A x \in Users : enrollments[<<s, x>>] <= 1

\* the pre-check: the data of select('id').eq(session_id).eq(user_id).single()
Existing(s, u, ok) == ok /\ enrollments[<<s, u>>] = 1

BookPreCheck(p, s, u, ok) ==
    /\ Invoke(p, [op |-> "bookSession", sessionId |-> s, userId |-> u])
    /\ Fails(p, ok)
    /\ IF Existing(s, u, ok)
         THEN Finish(p, Throw("Already enrolled"))
         ELSE Goto(p, "book_insert")
    /\ UNCHANGED <<tables, pkg, profile>>

BookInsert(p, ok) ==
    /\ pc[p] = "book_insert"
    /\ Fails(p, ok)
    /\ IF ok
         THEN /\ enrollments' = [enrollments EXCEPT
                     ![<<call[p].sessionId, call[p].userId>>] = @ + 1]
              /\ Goto(p, "book_credits_read")
         ELSE /\ UNCHANGED enrollments
              /\ Finish(p, Throw(RemoteError))
    /\ UNCHANGED <<profiles, class_types, sessions, packages, purchases,
                   availability, availSeq, blockouts, call, pkg, profile, calls>>

\* the guard without the comparison: if (profile)
MayDecrementAny(prof) == prof # {}

\* the guard of the decrement: profile && profile.package_credits > 0
MayDecrement(prof) == prof # {} /\ \A c \in prof : c > 0

BookReadCredits(p, ok) ==
    /\ pc[p] = "book_credits_read"
    /\ Fails(p, ok)
    /\ LET prof == Single({profiles[call[p].userId]}, ok) IN
         /\ profile' = [profile EXCEPT ![p] = prof]
         /\ IF MayDecrement(prof)
              THEN Goto(p, "book_credits_write")
              ELSE Finish(p, Ok({}))
    /\ UNCHANGED <<tables, call, pkg, calls>>

\* a decrement of the stored balance instead of the balance read
DecrementedInPlace(p) == profiles[call[p].userId] - 1

\* the value bookSession writes: profile.package_credits - 1
Decremented(p) == (CHOOSE c \in profile[p] : TRUE) - 1

BookWriteCredits(p, ok) ==
    /\ pc[p] = "book_credits_write"
    /\ Fails(p, ok)
    /\ profiles' = IF ok THEN [profiles EXCEPT ![call[p].userId] = Decremented(p)]
                         ELSE profiles
    /\ Finish(p, Ok({}))
    /\ UNCHANGED <<class_types, sessions, enrollments, packages, purchases,
                   availability, availSeq, blockouts, call, pkg, profile, calls>>

\* -------------------------------------------------------- purchasePackage
PurchaseReadPackage(p, u, id, ok) ==
    /\ Invoke(p, [op |-> "purchasePackage", userId |-> u, packageId |-> id])
    /\ Fails(p, ok)
    /\ LET row == Single({r \in packages : r.id = id}, ok) IN
         /\ pkg' = [pkg EXCEPT ![p] = row]
         /\ IF row = {}
              THEN Finish(p, Throw("Package not found"))
              ELSE Goto(p, "purchase_insert")
    /\ UNCHANGED <<tables, profile>>

\* the ledger row purchasePackage inserts, copied from the package as read
PurchaseRow(p) ==
    LET row == CHOOSE r \in pkg[p] : TRUE IN
    [user_id |-> call[p].userId, package_id |-> call[p].packageId,
     package_name |-> row.name, amount_paid |-> row.price, credits_added |-> row.credits]

PurchaseInsert(p, ok) ==
    /\ pc[p] = "purchase_insert"
    /\ Fails(p, ok)
    /\ IF ok
         THEN /\ purchases' = Append(purchases, PurchaseRow(p))
              /\ Goto(p, "purchase_credits_read")
         ELSE /\ UNCHANGED purchases
              /\ Finish(p, Throw(RemoteError))
    /\ UNCHANGED <<profiles, class_types, sessions, enrollments, packages,
                   availability, availSeq, blockouts, call, pkg, profile, calls>>

PurchaseReadCredits(p, ok) ==
    /\ pc[p] = "purchase_credits_read"
    /\ Fails(p, ok)
    /\ profile' = [profile EXCEPT ![p] = Single({profiles[call[p].userId]}, ok)]
    /\ Goto(p, "purchase_credits_write")
    /\ UNCHANGED <<tables, call, pkg, calls>>

\* the package's credits written over the balance instead of added to it
NewCreditsOverwrite(p) == (CHOOSE r \in pkg[p] : TRUE).credits

\* newCredits = (profile?.package_credits || 0) + pkg.credits
NewCredits(p) ==
    (IF profile[p] = {} THEN 0 ELSE CHOOSE c \in profile[p] : TRUE)
        + (CHOOSE r \in pkg[p] : TRUE).credits

PurchaseWriteCredits(p, ok) ==
    /\ pc[p] = "purchase_credits_write"
    /\ Fails(p, ok)
    /\ profiles' = IF ok THEN [profiles EXCEPT ![call[p].userId] = NewCredits(p)]
                         ELSE profiles
    /\ Finish(p, Ok({}))
    /\ UNCHANGED <<class_types, sessions, enrollments, packages, purchases,
                   availability, availSeq, blockouts, call, pkg, profile, calls>>

\* ------------------------------------------------------ getSessionsForUser
\* the nested select enrollments (user_id) of one session: its user_id column,
\* user id -> number of occurrences
Roster(s) == [u \in Users |-> enrollments[<<s, u>>]]

\* the roster cut down to the user the query is for
SessionsOfOwnRoster(userId) ==
    {[id |-> s,
      enrolledUserIds |-> [u \in Users |-> IF u = userId THEN enrollments[<<s, u>>] ELSE 0],
      items |-> enrollments[<<s, userId>>]] :
        s \in {x \in SessionIds : enrollments[<<x, userId>>] > 0}}

\* data.map(...): one LessonSession per enrollment row of the user, each with the
\* roster of its session; items is the number of rows that yield the same element
SessionsOf(userId) ==
    {[id |-> s, enrolledUserIds |-> Roster(s), items |-> enrollments[<<s, userId>>]] :
        s \in {x \in SessionIds : enrollments[<<x, userId>>] > 0}}

\* item.session of an enrollment row whose session has no row is null, and
\* reading s.id of it throws
Dangling(userId) ==
    \E s \in SessionIds : enrollments[<<s, userId>>] > 0 /\ [id |-> s] \notin sessions

GetSessionsForUser(p, userId, ok) ==
    /\ InvokeRead(p, [op |-> "getSessionsForUser", userId |-> userId])
    /\ Fails(p, ok)
    /\ Finish(p, IF ~ok THEN Throw(RemoteError)
                 ELSE IF Dangling(userId) THEN Throw("TypeError")
                 ELSE Ok(SessionsOf(userId)))
    /\ UNCHANGED <<tables, pkg, profile>>

\* ------------------------------------------------------------ getUserById
UserOf(id, ok) ==
    {[id |-> id, packageCredits |-> c] :
        c \in Single({profiles[u] : u \in {x \in Users : x = id}}, ok)}

\* if (error) return undefined: the value {} is undefined
GetUserById(p, id, ok) ==
    /\ InvokeRead(p, [op |-> "getUserById", id |-> id])
    /\ Fails(p, ok)
    /\ Finish(p, Ok(UserOf(id, ok)))
    /\ UNCHANGED <<tables, pkg, profile>>

\* ---------------------------------------------------------------- packages
UpdatePackage(p, edit, ok) ==
    /\ Invoke(p, [op |-> "updatePackage", pkg |-> edit])
    /\ Fails(p, ok)
    /\ packages' = IF ok
                     THEN {IF r.id = edit.id
                             THEN [id |-> r.id, name |-> edit.name,
                                   credits |-> edit.credits, price |-> edit.price]
                             ELSE r : r \in packages}
                     ELSE packages
    /\ Finish(p, IF ok THEN Ok({}) ELSE Throw(RemoteError))
    /\ UNCHANGED <<profiles, class_types, sessions, enrollments, purchases,
                   availability, availSeq, blockouts, pkg, profile>>

\* delete() without the filter
DeleteAll(table, id) == {}

\* delete().eq('id', id) on one table
DeleteFrom(table, id) == {r \in table : r.id # id}

DeletePackage(p, id, ok) ==
    /\ Invoke(p, [op |-> "deletePackage", id |-> id])
    /\ Fails(p, ok)
    /\ packages' = IF ok THEN DeleteFrom(packages, id) ELSE packages
    /\ Finish(p, IF ok THEN Ok({}) ELSE Throw(RemoteError))
    /\ UNCHANGED <<profiles, class_types, sessions, enrollments, purchases,
                   availability, availSeq, blockouts, pkg, profile>>

\* ------------------------------------------------- classes, sessions, blockouts
DeleteClass(p, id, ok) ==
    /\ Invoke(p, [op |-> "deleteClass", id |-> id])
    /\ Fails(p, ok)
    /\ class_types' = IF ok THEN DeleteFrom(class_types, id) ELSE class_types
    /\ Finish(p, IF ok THEN Ok({}) ELSE Throw(RemoteError))
    /\ UNCHANGED <<profiles, sessions, enrollments, packages, purchases,
                   availability, availSeq, blockouts, pkg, profile>>

DeleteSession(p, id, ok) ==
    /\ Invoke(p, [op |-> "deleteSession", id |-> id])
    /\ Fails(p, ok)
    /\ sessions' = IF ok THEN DeleteFrom(sessions, id) ELSE sessions
    /\ Finish(p, IF ok THEN Ok({}) ELSE Throw(RemoteError))
    /\ UNCHANGED <<profiles, class_types, enrollments, packages, purchases,
                   availability, availSeq, blockouts, pkg, profile>>

DeleteBlockout(p, id, ok) ==
    /\ Invoke(p, [op |-> "deleteBlockout", id |-> id])
    /\ Fails(p, ok)
    /\ blockouts' = IF ok THEN DeleteFrom(blockouts, id) ELSE blockouts
    /\ Finish(p, IF ok THEN Ok({}) ELSE Throw(RemoteError))
    /\ UNCHANGED <<profiles, class_types, sessions, enrollments, packages, purchases,
                   availability, availSeq, pkg, profile>>

\* ------------------------------------------------------------ availability
Digits == <<"0", "1", "2", "3", "4", "5", "6", "7", "8", "9">>

\* String(n) of a non-negative integer: its decimal digits
RECURSIVE StringOf(_)
StringOf(n) == IF n < 10 THEN <<Digits[n + 1]>>
               ELSE Append(StringOf(n \div 10), Digits[(n % 10) + 1])

IsDigit(c) == \E k \in 1..10 : Digits[k] = c
DigitValue(c) == (CHOOSE k \in 1..10 : Digits[k] = c) - 1

RECURSIVE Decimal(_)
Decimal(t) == IF t = <<>> THEN 0
              ELSE 10 * Decimal(SubSeq(t, 1, Len(t) - 1)) + DigitValue(t[Len(t)])

\* the day read as the 1-based day of the week
NumberOfOneBased(t) == Decimal(t) + 1

\* Number(text) of a column value: the empty text is 0, decimal digits are their
\* value, anything else is NaN
NumberOf(t) == IF \A i \in 1..Len(t) : IsDigit(t[i]) THEN Decimal(t) ELSE "NaN"

CreateAvailability(p, instructorId, dayOfWeek, ok) ==
    /\ Invoke(p, [op |-> "createAvailability", instructorId |-> instructorId,
                  dayOfWeek |-> dayOfWeek])
    /\ Fails(p, ok)
    /\ IF ok
         THEN /\ availSeq' = availSeq + 1
              /\ availability' = availability \cup
                     {[id |-> availSeq + 1, instructor_id |-> instructorId,
                       day_of_week |-> StringOf(dayOfWeek)]}
         ELSE UNCHANGED <<availability, availSeq>>
    /\ Finish(p, IF ok THEN Ok({}) ELSE Throw(RemoteError))
    /\ UNCHANGED <<profiles, class_types, sessions, enrollments, packages, purchases,
                   blockouts, pkg, profile>>

\* data.map(...) of the rows of one instructor; the later dayOfWeek key wins
AvailabilityOf(instructorId) ==
    {[id |-> a.id, instructorId |-> a.instructor_id,
      dayOfWeek |-> NumberOf(a.day_of_week)] :
        a \in {r \in availability : r.instructor_id = instructorId}}

GetAvailability(p, instructorId, ok) ==
    /\ InvokeRead(p, [op |-> "getAvailability", instructorId |-> instructorId])
    /\ Fails(p, ok)
    /\ Finish(p, IF ok THEN Ok(AvailabilityOf(instructorId)) ELSE Throw(RemoteError))
    /\ UNCHANGED <<tables, pkg, profile>>

DeleteAvailability(p, id, ok) ==
    /\ Invoke(p, [op |-> "deleteAvailability", id |-> id])
    /\ Fails(p, ok)
    /\ availability' = IF ok THEN DeleteFrom(availability, id) ELSE availability
    /\ Finish(p, IF ok THEN Ok({}) ELSE Throw(RemoteError))
    /\ UNCHANGED <<profiles, class_types, sessions, enrollments, packages, purchases,
                   availSeq, blockouts, pkg, profile>>

\* ---------------------------------------------------- createUser, deleteUser
\* console.warn, then throw: no request is issued
CreateUser(p) ==
    /\ InvokeRead(p, [op |-> "createUser"])
    /\ Finish(p, Throw("Admin user creation requires backend function"))
    /\ UNCHANGED <<tables, pkg, profile, failed>>

\* console.warn and nothing else: the promise resolves
DeleteUser(p, id) ==
    /\ InvokeRead(p, [op |-> "deleteUser", id |-> id])
    /\ Finish(p, Ok({}))
    /\ UNCHANGED <<tables, pkg, profile, failed>>

\* ------------------------------------------------------------ the caller
\* the caller has received the operation's outcome; its locals are gone
Return(p) ==
    /\ pc[p] = "done"
    /\ pc' = [pc EXCEPT ![p] = "idle"]
    /\ call' = [call EXCEPT ![p] = NoCall]
    /\ pkg' = [pkg EXCEPT ![p] = {}]
    /\ profile' = [profile EXCEPT ![p] = {}]
    /\ ret' = [ret EXCEPT ![p] = NoRet]
    /\ failed' = [failed EXCEPT ![p] = FALSE]
    /\ UNCHANGED <<tables, calls>>

\* ------------------------------------------------------- specifications
InitPackages ==
    {[id |-> "p1", name |-> "Starter", credits |-> 1, price |-> 10],
     [id |-> "p2", name |-> "Family", credits |-> 2, price |-> 18]}

NoPre == [op |-> "none"]
NoPrev == [call |-> NoCall, ret |-> NoRet]

Init ==
    /\ profiles \in [Users -> {0, MaxInitCredits}]
    /\ class_types = {[id |-> k] : k \in ClassIds}
    /\ sessions = {[id |-> s] : s \in SessionIds}
    /\ enrollments = [e \in Pairs |-> 0]
    /\ packages = InitPackages
    /\ purchases = <<>>
    /\ availability = {}
    /\ availSeq = 0
    /\ blockouts = {[id |-> b, instructor_id |-> "i1"] : b \in BlockoutIds}
    /\ pc = [p \in Procs |-> "idle"]
    /\ call = [p \in Procs |-> NoCall]
    /\ pkg = [p \in Procs |-> {}]
    /\ profile = [p \in Procs |-> {}]
    /\ ret = [p \in Procs |-> NoRet]
    /\ failed = [p \in Procs |-> FALSE]
    /\ calls = 0
    /\ pre = NoPre
    /\ prev = NoPrev

\* at most max writing operations are invoked
Budget(max) == calls' = calls \/ calls < max

Step(max) == Budget(max) /\ UNCHANGED history

\* no operation is in flight
Quiescent == \A q \in Procs : pc[q] = "idle"

\* Concurrent callers; any request may fail.  getSessionsForUser is one request
\* that reads sessions and enrollments, which an operation in flight leaves as
\* they are once it has inserted; it is invoked between operations.

Next ==
    \/ \E p \in Procs, s \in SessionIds, u \in Users, ok \in BOOLEAN :
          BookPreCheck(p, s, u, ok) /\ Step(MaxCalls)
    \/ \E p \in Procs, ok \in BOOLEAN : BookInsert(p, ok) /\ Step(MaxCalls)
    \/ \E p \in Procs, ok \in BOOLEAN : BookReadCredits(p, ok) /\ Step(MaxCalls)
    \/ \E p \in Procs, ok \in BOOLEAN : BookWriteCredits(p, ok) /\ Step(MaxCalls)
    \/ \E p \in Procs, u \in Users, id \in PackageIds, ok \in BOOLEAN :
          PurchaseReadPackage(p, u, id, ok) /\ Step(MaxCalls)
    \/ \E p \in Procs, ok \in BOOLEAN : PurchaseInsert(p, ok) /\ Step(MaxCalls)
    \/ \E p \in Procs, ok \in BOOLEAN : PurchaseReadCredits(p, ok) /\ Step(MaxCalls)
    \/ \E p \in Procs, ok \in BOOLEAN : PurchaseWriteCredits(p, ok) /\ Step(MaxCalls)
    \/ \E p \in Procs, u \in Users, ok \in BOOLEAN :
          Quiescent /\ GetSessionsForUser(p, u, ok) /\ Step(MaxCalls)
    \/ \E p \in Procs : Return(p) /\ Step(MaxCalls)

Spec == Init /\ [][Next]_vars

\* One caller that invokes an operation after the one before has returned, and
\* no request fails.  pre and prev record what the caller has seen.
Snapshot ==
    [profiles |-> profiles, enrollments |-> enrollments,
     packages |-> packages, purchases |-> purchases]

SeqStep ==
    /\ Budget(MaxSeqCalls)
    /\ pre' = IF pc["c1"] = "idle" THEN Snapshot
              ELSE IF pc'["c1"] = "idle" THEN NoPre ELSE pre
    /\ prev' = IF pc'["c1"] = "idle" THEN [call |-> call["c1"], ret |-> ret["c1"]]
               ELSE prev

SeqNext ==
    \/ \E s \in SessionIds, u \in Users : BookPreCheck("c1", s, u, TRUE) /\ SeqStep
    \/ BookInsert("c1", TRUE) /\ SeqStep
    \/ BookReadCredits("c1", TRUE) /\ SeqStep
    \/ BookWriteCredits("c1", TRUE) /\ SeqStep
    \/ \E u \in Users, id \in PackageIds \cup {MissingId} :
          PurchaseReadPackage("c1", u, id, TRUE) /\ SeqStep
    \/ PurchaseInsert("c1", TRUE) /\ SeqStep
    \/ PurchaseReadCredits("c1", TRUE) /\ SeqStep
    \/ PurchaseWriteCredits("c1", TRUE) /\ SeqStep
    \/ \E id \in PackageIds, e \in PackageEdits :
          UpdatePackage("c1", [id |-> id, name |-> e.name, credits |-> e.credits,
                               price |-> e.price], TRUE) /\ SeqStep
    \/ \E id \in PackageIds : DeletePackage("c1", id, TRUE) /\ SeqStep
    \/ Return("c1") /\ SeqStep

SeqSpec == Init /\ [][SeqNext]_vars

\* The operations of one request (and of none): their interleavings are their
\* sequences, so one caller invokes them.  Any request may fail.
AdminNext ==
    \/ CreateUser("c1") /\ Step(MaxCalls)
    \/ \E id \in Users \cup {MissingId}, ok \in BOOLEAN :
          GetUserById("c1", id, ok) /\ Step(MaxCalls)
    \/ \E id \in Users : DeleteUser("c1", id) /\ Step(MaxCalls)
    \/ \E id \in ClassIds \cup {MissingId}, ok \in BOOLEAN :
          DeleteClass("c1", id, ok) /\ Step(MaxCalls)
    \/ \E id \in SessionIds \cup {MissingId}, ok \in BOOLEAN :
          DeleteSession("c1", id, ok) /\ Step(MaxCalls)
    \/ \E id \in PackageIds \cup {MissingId}, ok \in BOOLEAN :
          DeletePackage("c1", id, ok) /\ Step(MaxCalls)
    \/ \E id \in BlockoutIds \cup {MissingId}, ok \in BOOLEAN :
          DeleteBlockout("c1", id, ok) /\ Step(MaxCalls)
    \/ \E i \in Instructors, d \in 0..DayMax, ok \in BOOLEAN :
          CreateAvailability("c1", i, d, ok) /\ Step(MaxCalls)
    \/ \E i \in Instructors, ok \in BOOLEAN : GetAvailability("c1", i, ok) /\ Step(MaxCalls)
    \/ \E id \in 0..MaxCalls, ok \in BOOLEAN :
          DeleteAvailability("c1", id, ok) /\ Step(MaxCalls)
    \/ Return("c1") /\ Step(MaxCalls)

AdminSpec == Init /\ [][AdminNext]_vars

\* ------------------------------------------------------------------ claims
Caller == "c1"
BookedPair(p) == <<call[p].sessionId, call[p].userId>>

\* C1 (SeqSpec): a bookSession(s, u) that finds no row for (s, u) inserts exactly
\* one and takes at most one credit from u; a bookSession(s, u) invoked after a
\* bookSession(s, u) that returned normally fails with 'Already enrolled', inserts
\* no row and leaves every balance as it was.
C1_BookTwiceInSequence ==
    (pc[Caller] = "done" /\ call[Caller].op = "bookSession") =>
        LET e == BookedPair(Caller)
            u == call[Caller].userId IN
        /\ pre.enrollments[e] = 0 =>
              /\ ret[Caller] = Ok({})
              /\ enrollments = [pre.enrollments EXCEPT ![e] = 1]
              /\ profiles = [pre.profiles EXCEPT ![u] = IF @ > 0 THEN @ - 1 ELSE @]
        /\ (prev.call = call[Caller] /\ prev.ret.status = "ok") =>
              /\ ret[Caller] = Throw("Already enrolled")
              /\ enrollments = pre.enrollments
              /\ profiles = pre.profiles

C1_SecondBookingRefused ==
    /\ pc[Caller] = "done"
    /\ call[Caller].op = "bookSession"
    /\ prev.call = call[Caller]
    /\ prev.ret.status = "ok"
    /\ ret[Caller] = Throw("Already enrolled")
    /\ enrollments[BookedPair(Caller)] = 1
    /\ profiles[call[Caller].userId] = MaxInitCredits - 1

\* C2 (SeqSpec): purchasePackage(u, P) for a package P that has a row adds
\* P.credits to u's balance and appends one ledger row with P's name, price and
\* credits as they were when the operation began; updatePackage and deletePackage
\* leave the ledger as it was.
C2_PurchaseAddsCreditsAndLedgerRow ==
    /\ (pc[Caller] = "done" /\ call[Caller].op = "purchasePackage") =>
          \A r \in pre.packages : r.id = call[Caller].packageId =>
              LET u == call[Caller].userId IN
              /\ ret[Caller] = Ok({})
              /\ profiles = [pre.profiles EXCEPT ![u] = @ + r.credits]
              /\ purchases = Append(pre.purchases,
                    [user_id |-> u, package_id |-> r.id, package_name |-> r.name,
                     amount_paid |-> r.price, credits_added |-> r.credits])
    /\ (pc[Caller] = "done" /\ call[Caller].op \in {"updatePackage", "deletePackage"}) =>
          purchases = pre.purchases

\* a purchase of p1 is in the ledger under the name and price p1 had, and p1 has
\* since been updated to another name, price and number of credits
C2_LedgerKeepsPackageAsPurchased ==
    /\ pc[Caller] = "done"
    /\ call[Caller].op = "updatePackage"
    /\ call[Caller].pkg.id = "p1"
    /\ \E r \in packages : r.id = "p1" /\ r.name = "Bundle" /\ r.credits = 3
    /\ Len(purchases) = 1
    /\ purchases[1] = [user_id |-> "u1", package_id |-> "p1", package_name |-> "Starter",
                       amount_paid |-> 10, credits_added |-> 1]
    /\ profiles["u1"] = MaxInitCredits + 1

\* C3 (Spec): the enrollments table holds at most one row for each (session,
\* user); stated for the states in which no request of an operation in flight has
\* failed, so that what refutes it is an interleaving of requests that all succeed.
C3_AtMostOneEnrollmentPerPair ==
    (\A p \in Procs : ~failed[p]) => \A e \in Pairs : enrollments[e] <= 1

\* C4 (Spec): the credit write of bookSession stores the balance the operation
\* read less one, and the credit write of purchasePackage the balance it read plus
\* the package's credits, whatever the stored balance is when the write arrives.
C4_WriteDependsOnEarlierRead ==
    [][\A p \in Procs :
        LET u == call[p].userId IN
        /\ (pc[p] = "book_credits_write" /\ pc'[p] = "done" /\ ~failed'[p]) =>
              \A c \in profile[p] : profiles' = [profiles EXCEPT ![u] = c - 1]
        /\ (pc[p] = "purchase_credits_write" /\ pc'[p] = "done" /\ ~failed'[p]) =>
              \A c \in profile[p] : \A r \in pkg[p] :
                  profiles' = [profiles EXCEPT ![u] = c + r.credits]]_vars

\* two bookings of one user for two sessions, no request failed, both rows are
\* there, both read the same balance and the balance is one less than it
C4_LostDecrement ==
    /\ \A p \in Procs : /\ pc[p] = "done"
                        /\ call[p].op = "bookSession"
                        /\ ret[p] = Ok({})
                        /\ ~failed[p]
                        /\ profile[p] = {MaxInitCredits}
                        /\ enrollments[BookedPair(p)] = 1
    /\ call["c1"].userId = call["c2"].userId
    /\ call["c1"].sessionId # call["c2"].sessionId
    /\ profiles[call["c1"].userId] = MaxInitCredits - 1

\* two purchases of one user, no request failed, both ledger rows are there, both
\* read the same balance and only one package's credits were added to it
C4_LostPurchaseCredits ==
    /\ \A p \in Procs : /\ pc[p] = "done"
                        /\ call[p].op = "purchasePackage"
                        /\ ret[p] = Ok({})
                        /\ ~failed[p]
                        /\ profile[p] = {0}
    /\ call["c1"].userId = call["c2"].userId
    /\ Len(purchases) = 2
    /\ purchases[1].credits_added + purchases[2].credits_added = 3
    /\ profiles[call["c1"].userId] \in {1, 2}

\* C5 (AdminSpec): createUser and deleteUser end in an error and change no row.
C5_UserAdministrationFails ==
    [][\A p \in Procs :
        (pc[p] = "idle" /\ pc'[p] = "done" /\ call'[p].op \in {"createUser", "deleteUser"}) =>
            /\ ret'[p].status = "error"
            /\ UNCHANGED tables]_vars

\* C6 (Spec): an operation one of whose requests failed fails to its caller; a
\* single-row lookup returns nothing instead.
C6_RemoteFailureSurfaces ==
    \A p \in Procs :
        (pc[p] = "done" /\ failed[p] /\ call[p].op # "getUserById") =>
            ret[p].status = "error"

\* C7 (AdminSpec): a delete by id whose request does not fail returns normally,
\* removes the row of its table that has the id, if there is one, and changes no
\* other row of any table; one whose request fails changes no row.
DeletedTable(op) ==
    CASE op = "deleteClass" -> 1
      [] op = "deleteSession" -> 2
      [] op = "deletePackage" -> 3
      [] op = "deleteAvailability" -> 4
      [] op = "deleteBlockout" -> 5
DeleteOps == {"deleteClass", "deleteSession", "deletePackage", "deleteAvailability",
              "deleteBlockout"}
DeletableTables == <<class_types, sessions, packages, availability, blockouts>>

C7_DeleteRemovesExactlyThatRow ==
    [][\A p \in Procs :
        (pc[p] = "idle" /\ pc'[p] = "done" /\ call'[p].op \in DeleteOps) =>
            LET k == DeletedTable(call'[p].op)
                hit == {r \in DeletableTables[k] : r.id = call'[p].id} IN
            /\ UNCHANGED <<profiles, enrollments, purchases, availSeq>>
            /\ \A j \in 1..5 : j # k => DeletableTables'[j] = DeletableTables[j]
            /\ IF failed'[p]
                 THEN DeletableTables'[k] = DeletableTables[k]
                 ELSE /\ ret'[p] = Ok({})
                      /\ Cardinality(hit) <= 1
                      /\ DeletableTables'[k] = DeletableTables[k] \ hit]_vars

\* deleteSession("s1") has removed s1 and left s2
C7_SessionDeleted ==
    /\ pc[Caller] = "done"
    /\ call[Caller] = [op |-> "deleteSession", id |-> "s1"]
    /\ ret[Caller] = Ok({})
    /\ sessions = {[id |-> "s2"]}
    /\ class_types = {[id |-> k] : k \in ClassIds}

\* C8 (Spec): getSessionsForUser(u) returns the sessions that have an enrollment
\* row for u, each with the users that have an enrollment row for it.
Enrolled(s) == {x \in Users : enrollments[<<s, x>>] > 0}

C9_DayOfWeekRoundTrip ==
    [][\A p \in Procs, i \in Instructors, d \in 0..DayMax :
        (pc[p] = "idle" /\ pc'[p] = "done" /\ ~failed'[p]
            /\ call'[p] = [op |-> "createAvailability", instructorId |-> i,
                           dayOfWeek |-> d]) =>
            /\ [id |-> availSeq', instructorId |-> i, dayOfWeek |-> d]
                  \in AvailabilityOf(i)'
            /\ \E a \in availability' :
                  /\ a.id = availSeq'
                  /\ a.day_of_week \in Seq({Digits[k] : k \in 1..10})
                  /\ Len(a.day_of_week) = 1]_vars

\* getAvailability has returned day 6 for a row that stores the text "6"
C9_DaySixReadBack ==
    /\ pc[Caller] = "done"
    /\ call[Caller].op = "getAvailability"
    /\ \E a \in availability :
          /\ a.day_of_week = <<"6">>
          /\ [id |-> a.id, instructorId |-> a.instructor_id, dayOfWeek |-> DayMax]
                \in ret[Caller].value

\* C10 (Spec): every balance is a non-negative integer, and a bookSession that
\* read the balance 0 has inserted its row, issues no credit write and returns
\* normally.
C10_CreditsNeverNegative ==
    /\ \A u \in Users : profiles[u] \in Nat
    /\ \A p \in Procs :
          (call[p].op = "bookSession" /\ profile[p] = {0}) =>
              /\ pc[p] = "done"
              /\ ret[p] = Ok({})
              /\ enrollments[BookedPair(p)] >= 1

C10_BookedWithoutCredits ==
    \E p \in Procs :
        /\ pc[p] = "done"
        /\ call[p].op = "bookSession"
        /\ ~failed[p]
        /\ profile[p] = {0}
        /\ profiles[call[p].userId] = 0
        /\ enrollments[BookedPair(p)] = 1
====
